---- MODULE Spec2Model ----
(***************************************************************************)
(* Model of app.py: the launcher that picks a port, spawns the web server  *)
(* (and optionally the MCP server), waits for the web port, opens the      *)
(* browser, monitors the children and terminates them on the way out.      *)
(*                                                                         *)
(* Program positions (pc) are the blocking points of main(): the places    *)
(* where the supervisor spends wall time and where a KeyboardInterrupt     *)
(* raised by SIGINT can therefore land.  Time is counted in ticks of one   *)
(* polling sleep of wait_for_port.                                         *)
(***************************************************************************)
EXTENDS Integers, FiniteSets

\* ---------------------------------------------------------------- bounds
MaxPortOffset == 1
MaxTimeout == 1
MaxExitCode == 1

\* ------------------------------------------------------ program constants
DefaultPort == 3000
NotReadyResult == 1
CleanResult == 0
SleepTicks == 1
SigTermCode == 0 - 15
SigKillCode == 0 - 9
\* Python's None for an absent port, exit code or return value
None == 0 - 1000

Ports == DefaultPort .. (DefaultPort + MaxPortOffset)
Timeouts == 0 .. MaxTimeout
ExitCodes == 0 .. MaxExitCode
Children == {"web", "mcp"}
\* values given with --host: the default of line 80. No step of the model
\* reads the host except the comparison with the URL, so one value is enough.
Hosts == {"127.0.0.1"}
PortStates == {"free", "bound", "listening"}

VARIABLES
    osEnvPort,      \* PORT in os.environ (None when unset)
    dotenvPort,     \* PORT in the .env file (None when unset or no file)
    args,           \* parsed flags: [mcp, no_open, host, timeout]
    ports,          \* per port on args.host: free / bound (held, not accepting) / listening
    envPort,        \* env["PORT"] of the merged environment handed to the children
    requested_port,
    port,
    url,            \* the URL built for the browser: [host, port]
    openAtCheck,    \* what the port check met on the requested port: "none" / "open" / "closed"
    findCalled,     \* find_free_port was called
    freeAtSelect,   \* the port find_free_port returned was free when it returned it
    pc,             \* position of main()
    tpc,            \* position inside terminate_process: idle / entry / wait
    st,             \* per child: none / running / exited / killed
    code,           \* per child: returncode (None while running)
    childPort,      \* per child: PORT in the environment it was spawned with
    webListening,   \* the web child holds the listener on `port`
    mcp_proc,       \* TRUE while main() holds a secondary handle (mcp_proc is not None)
    mcpSpawnFailed, \* Popen of the secondary raised
    now,            \* time.time(), in ticks
    deadline,       \* wait_for_port's deadline
    waitPort,       \* the port wait_for_port was called with
    ready,          \* wait_for_port's return value: "none" / "true" / "false"
    reachSeen,      \* a listener was reachable on the port at some time before the deadline
    openAtProbe,    \* a listener was accepting on the port at one of wait_for_port's connection attempts
    probeLate,      \* some connection attempt began at or after the deadline
    opened,         \* webbrowser.open: "no" / "ok" / "error"
    monitored,      \* the monitoring loop was entered
    web_code,       \* the exit code the monitoring loop read from web_proc.poll()
    retPending,     \* value of a return statement waiting for the finally block
    termCalls,      \* per child: calls of terminate_process
    sigterms,       \* per child: proc.terminate() signals sent
    kills,          \* per child: proc.kill() signals sent
    termOutcome,    \* per child: how the last terminate_process call ended
    stAtCall,       \* per child: its state when terminate_process was last entered
    intrAt,         \* positions at which a KeyboardInterrupt was raised
    outcome,        \* "running" / "returned" / "raised"
    exc,            \* the exception main() raised
    result          \* main()'s return value (RunResult)

cfgVars == <<osEnvPort, dotenvPort, args>>
portVars == <<envPort, requested_port, port, url, openAtCheck, findCalled, freeAtSelect>>
procVars == <<st, code, childPort, webListening, mcp_proc, mcpSpawnFailed>>
waitVars == <<now, deadline, waitPort, ready, reachSeen, openAtProbe, probeLate>>
monVars == <<opened, monitored, web_code, retPending>>
termVars == <<termCalls, sigterms, kills, termOutcome, stAtCall>>
intrVars == <<intrAt>>
endVars == <<outcome, exc, result>>
vars == <<cfgVars, ports, portVars, pc, tpc, procVars, waitVars, monVars, termVars,
          intrVars, endVars>>

\* ------------------------------------------------------------- Init
Init ==
    /\ osEnvPort \in Ports \cup {None}
    /\ dotenvPort \in Ports \cup {None}
    /\ args \in [mcp : BOOLEAN, no_open : BOOLEAN, host : Hosts, timeout : Timeouts]
    /\ ports \in [Ports -> PortStates]
    /\ envPort = None
    /\ requested_port = None
    /\ port = None
    /\ url = [host |-> "", port |-> None]
    /\ openAtCheck = "none"
    /\ findCalled = FALSE
    /\ freeAtSelect = FALSE
    /\ pc = "Configuring"
    /\ tpc = "idle"
    /\ st = [c \in Children |-> "none"]
    /\ code = [c \in Children |-> None]
    /\ childPort = [c \in Children |-> None]
    /\ webListening = FALSE
    /\ mcp_proc = FALSE
    /\ mcpSpawnFailed = FALSE
    /\ now = 0
    /\ deadline = 0
    /\ waitPort = None
    /\ ready = "none"
    /\ reachSeen = FALSE
    /\ openAtProbe = FALSE
    /\ probeLate = FALSE
    /\ opened = "no"
    /\ monitored = FALSE
    /\ web_code = None
    /\ retPending = None
    /\ termCalls = [c \in Children |-> 0]
    /\ sigterms = [c \in Children |-> 0]
    /\ kills = [c \in Children |-> 0]
    /\ termOutcome = [c \in Children |-> "none"]
    /\ stAtCall = [c \in Children |-> "none"]
    /\ intrAt = {}
    /\ outcome = "running"
    /\ exc = "none"
    /\ result = None

\* ------------------------------------------------- leaving main()
Return(v) ==
    /\ pc' = "Done"
    /\ tpc' = "idle"
    /\ outcome' = "returned"
    /\ result' = v
    /\ exc' = exc

Raise(e) ==
    /\ pc' = "Done"
    /\ tpc' = "idle"
    /\ outcome' = "raised"
    /\ exc' = e
    /\ result' = result

\* ------------------------------------------------- Configuring (84-89)
\* env = os.environ.copy(); env.update(load_dotenv(...)): a key of the file
\* replaces the same key of the process environment.
MergedEnvPort(osPort, filePort) ==
    IF filePort # None THEN filePort ELSE osPort

\* int(env.get("PORT", "3000"))
RequestedPort(ePort) ==
    IF ePort = None THEN DefaultPort ELSE ePort

Configure ==
    /\ pc = "Configuring"
    /\ envPort' = MergedEnvPort(osEnvPort, dotenvPort)
    /\ requested_port' = RequestedPort(envPort')
    /\ port' = requested_port'
    /\ pc' = "PortCheck"
    /\ UNCHANGED <<cfgVars, ports, url, openAtCheck, findCalled, freeAtSelect, tpc, procVars, waitVars,
                   monVars, termVars, intrVars, endVars>>

\* ------------------------------------------------- PortCheck (90-96)
\* mutant: a probe that tests whether the port can be bound, not whether it accepts
is_port_open_bindtest(p) ==
    ports[p] # "free"

\* socket.create_connection succeeds exactly when a listener accepts on the port
is_port_open(p) ==
    ports[p] = "listening"

\* mutant: a port number picked without binding it
find_free_port_unbound ==
    Ports

\* bind((host, 0)): the ports the OS can hand out are the ones nobody holds
find_free_port ==
    {p \in Ports : ports[p] = "free"}

\* url = f"http://localhost:{port}/index.html" (98)
Url(p) ==
    [host |-> "localhost", port |-> p]

PortCheck ==
    /\ pc = "PortCheck"
    /\ openAtCheck' = (IF ports[port] = "listening" THEN "open" ELSE "closed")
    /\ IF is_port_open(port)
       THEN \/ \E p \in find_free_port :
                  /\ port' = p
                  /\ envPort' = p
                  /\ findCalled' = TRUE
                  /\ freeAtSelect' = (ports[p] = "free")
                  /\ url' = Url(p)
                  /\ pc' = "SpawnWeb"
                  /\ UNCHANGED <<tpc, endVars>>
            \/ /\ find_free_port = {}
               /\ findCalled' = TRUE
               /\ Raise("OSError(bind)")
               /\ UNCHANGED <<port, envPort, url, freeAtSelect>>
       ELSE /\ url' = Url(port)
            /\ pc' = "SpawnWeb"
            /\ UNCHANGED <<port, envPort, findCalled, freeAtSelect, tpc, endVars>>
    /\ UNCHANGED <<cfgVars, ports, requested_port, procVars, waitVars, monVars,
                   termVars, intrVars>>

\* ------------------------------------------------- Spawning (100-113)
\* deadline = time.time() + timeout_s, first line of wait_for_port
EnterWait ==
    /\ pc' = "WaitProbe"
    /\ waitPort' = port
    /\ deadline' = now + args.timeout
    /\ reachSeen' = (ports[port] = "listening" /\ now < deadline')

\* web_proc = subprocess.Popen(["node", "server.js"], env=env): either the
\* child runs, or Popen raises out of main() before any child exists
SpawnWeb ==
    /\ pc = "SpawnWeb"
    /\ \/ /\ st' = [st EXCEPT !["web"] = "running"]
          /\ childPort' = [childPort EXCEPT !["web"] = envPort]
          /\ IF args.mcp
             THEN /\ pc' = "SpawnMcp"
                  /\ UNCHANGED <<deadline, waitPort, reachSeen>>
             ELSE EnterWait
          /\ UNCHANGED <<tpc, endVars>>
       \/ /\ Raise("OSError(spawn)")
          /\ UNCHANGED <<st, childPort, deadline, waitPort, reachSeen>>
    /\ UNCHANGED <<cfgVars, ports, portVars, code, webListening, mcp_proc, mcpSpawnFailed,
                   now, ready, openAtProbe, probeLate, monVars, termVars, intrVars>>

\* What main() does when Popen of the secondary raises: nothing catches it
\* between line 108 and the end of main(), so it leaves main().
OnMcpSpawnError ==
    /\ Raise("OSError(spawn)")
    /\ UNCHANGED <<deadline, waitPort, reachSeen>>

\* if args.mcp: mcp_proc = subprocess.Popen(["node", "mcp_server.mjs"], ...)
SpawnMcp ==
    /\ pc = "SpawnMcp"
    /\ \/ /\ st' = [st EXCEPT !["mcp"] = "running"]
          /\ childPort' = [childPort EXCEPT !["mcp"] = envPort]
          /\ mcp_proc' = TRUE
          /\ EnterWait
          /\ UNCHANGED <<mcpSpawnFailed, tpc, endVars>>
       \/ /\ mcpSpawnFailed' = TRUE
          /\ OnMcpSpawnError
          /\ UNCHANGED <<st, childPort, mcp_proc>>
    /\ UNCHANGED <<cfgVars, ports, portVars, code, webListening, now, ready, openAtProbe,
                   probeLate, monVars, termVars, intrVars>>

\* ------------------------------------------------- wait_for_port (31-39)
\* mutant: one more connection attempt at the deadline itself
WaitLoopCondInclusive(t, d) ==
    t <= d

\* while time.time() < deadline
WaitLoopCond(t, d) ==
    t < d

\* where main() goes when wait_for_port returned True (123-129)
AfterReady ==
    IF ~args.no_open
    THEN /\ pc' = "Open"
         /\ monitored' = monitored
    ELSE /\ pc' = "Monitor"
         /\ monitored' = TRUE

\* one pass of the loop up to the sleep: the deadline test, then the connect
WaitProbe ==
    /\ pc = "WaitProbe"
    /\ IF WaitLoopCond(now, deadline)
       THEN /\ probeLate' = (probeLate \/ ~(now < deadline))
            /\ openAtProbe' = (openAtProbe \/ ports[waitPort] = "listening")
            /\ IF is_port_open(waitPort)
               THEN /\ ready' = "true"
                    /\ AfterReady
                    /\ tpc' = tpc
               ELSE /\ pc' = "WaitSleep"
                    /\ UNCHANGED <<ready, monitored, tpc>>
       ELSE /\ ready' = "false"
            /\ pc' = "NR_web"
            /\ tpc' = "entry"
            /\ UNCHANGED <<openAtProbe, probeLate, monitored>>
    /\ UNCHANGED <<cfgVars, ports, portVars, procVars, now, deadline, waitPort, reachSeen, opened,
                   web_code, retPending, termVars, intrVars, endVars>>

\* except OSError: time.sleep(0.15)
WaitSleep ==
    /\ pc = "WaitSleep"
    /\ now' = now + SleepTicks
    /\ pc' = "WaitProbe"
    /\ UNCHANGED <<cfgVars, ports, portVars, tpc, procVars, deadline, waitPort, ready, reachSeen,
                   openAtProbe, probeLate, monVars, termVars, intrVars, endVars>>

\* ------------------------------------------------- browser (123-127)
\* webbrowser.open(url, new=2) inside try / except Exception: pass
\* mutant: an error of the browser step leaves main()
OnBrowserErrorPropagates ==
    /\ opened' = "error"
    /\ monitored' = monitored
    /\ Raise("Exception")

\* except Exception: pass (126-127), then on to the loop
OnBrowserError ==
    /\ opened' = "error"
    /\ pc' = "Monitor"
    /\ monitored' = TRUE
    /\ UNCHANGED <<tpc, endVars>>

OpenBrowser ==
    /\ pc = "Open"
    /\ \/ /\ opened' = "ok"
          /\ pc' = "Monitor"
          /\ monitored' = TRUE
          /\ UNCHANGED <<tpc, endVars>>
       \/ OnBrowserError
    /\ UNCHANGED <<cfgVars, ports, portVars, procVars, waitVars, web_code, retPending,
                   termVars, intrVars>>

\* ------------------------------------------------- monitoring loop (129-138)
\* mutant: the poll never reports an exit
PollExitedNever(c) ==
    FALSE

\* proc.poll() is not None
PollExited(c) ==
    st[c] \in {"exited", "killed"}

\* return int(web_code): the value the return statement leaves for the finally block
MonitorReturn(c) ==
    c

\* one iteration: poll the primary, then the secondary if still held, then sleep
Monitor ==
    /\ pc = "Monitor"
    /\ IF PollExited("web")
       THEN /\ web_code' = code["web"]
            /\ retPending' = MonitorReturn(code["web"])
            /\ pc' = "Fin_web"
            /\ tpc' = "entry"
            /\ mcp_proc' = mcp_proc
       ELSE /\ mcp_proc' = (mcp_proc /\ ~PollExited("mcp"))
            /\ UNCHANGED <<web_code, retPending, pc, tpc>>
    /\ UNCHANGED <<cfgVars, ports, portVars, st, code, childPort, webListening,
                   mcpSpawnFailed, waitVars, opened, monitored, termVars, intrVars, endVars>>

\* ------------------------------------------------- terminate_process (56-69)
TermPcs == {"NR_web", "NR_mcp", "Fin_web", "Fin_mcp"}

\* the child the current terminate_process call is about
TermChild ==
    IF pc \in {"NR_web", "Fin_web"} THEN "web" ELSE "mcp"

\* mutant: the finally block's own return replaces the pending one
FinallyResultAlwaysClean ==
    CleanResult

\* mutant: the fall-through return reports a failure
FinallyResultFailure ==
    IF retPending # None THEN retPending ELSE NotReadyResult

\* the value main() returns after the finally block: the pending return of
\* line 133, else line 145
FinallyResult ==
    IF retPending # None THEN retPending ELSE CleanResult

\* mutant: the secondary is terminated whether or not its handle is still held
TerminatesSecondaryAlways ==
    TRUE

\* mutant: the secondary is forgotten on the way out
TerminatesSecondaryNever ==
    FALSE

\* if mcp_proc: terminate_process(mcp_proc, "mcp") (118, 143)
TerminatesSecondary ==
    mcp_proc

\* mutant: the not-ready path reports the primary's exit code when it has one
NotReadyReturnChildCode ==
    IF code["web"] # None THEN code["web"] ELSE NotReadyResult

\* return 1 (121)
NotReadyReturn ==
    NotReadyResult

\* where main() continues when terminate_process returns
AfterTerminate ==
    IF pc \in {"NR_web", "Fin_web"} /\ TerminatesSecondary
    THEN /\ pc' = (IF pc = "NR_web" THEN "NR_mcp" ELSE "Fin_mcp")
         /\ tpc' = "entry"
         /\ UNCHANGED endVars
    ELSE IF pc \in {"NR_web", "NR_mcp"}
         THEN Return(NotReadyReturn)
         ELSE Return(FinallyResult)

\* the port the web child's listener held is released when the child is gone
PortsAfterGone(c) ==
    IF c = "web" /\ webListening
    THEN [ports EXCEPT ![port] = "free"]
    ELSE ports

\* mutant: no early return for a child that already exited
AlreadyExitedUnchecked(c) ==
    FALSE

\* if proc.poll() is not None: return (57-58)
AlreadyExited(c) ==
    PollExited(c)

\* mutant: the grace period runs out and nothing is killed
KillChildSkipped(c) ==
    UNCHANGED <<kills, st, code, ports, webListening>>

\* proc.kill() (67): the child is killed and whatever it held is released
KillChild(c) ==
    /\ kills' = [kills EXCEPT ![c] = @ + 1]
    /\ st' = [st EXCEPT ![c] = "killed"]
    /\ code' = [code EXCEPT ![c] = SigKillCode]
    /\ ports' = PortsAfterGone(c)
    /\ webListening' = (webListening /\ c # "web")

\* mutant: the error of proc.terminate() leaves terminate_process and main()
OnTerminateErrorPropagates(c) ==
    /\ termOutcome' = [termOutcome EXCEPT ![c] = "termraise"]
    /\ Raise("TerminationError")
    /\ UNCHANGED sigterms

\* what terminate_process does when proc.terminate() raises: return (61-62)
OnTerminateError(c) ==
    /\ termOutcome' = [termOutcome EXCEPT ![c] = "termraise"]
    /\ AfterTerminate
    /\ UNCHANGED sigterms

\* if proc.poll() is not None: return; try: proc.terminate() except: return
TermEntry ==
    /\ pc \in TermPcs
    /\ tpc = "entry"
    /\ LET c == TermChild IN
        /\ termCalls' = [termCalls EXCEPT ![c] = @ + 1]
        /\ stAtCall' = [stAtCall EXCEPT ![c] = st[c]]
        /\ IF AlreadyExited(c)
           THEN /\ termOutcome' = [termOutcome EXCEPT ![c] = "noop"]
                /\ AfterTerminate
                /\ UNCHANGED sigterms
           ELSE \/ OnTerminateError(c)
                \/ /\ sigterms' = [sigterms EXCEPT ![c] = @ + 1]
                   /\ termOutcome' = [termOutcome EXCEPT ![c] = "waiting"]
                   /\ tpc' = "wait"
                   /\ UNCHANGED <<pc, endVars>>
    /\ UNCHANGED <<cfgVars, ports, portVars, procVars, waitVars, monVars, kills, intrVars>>

\* proc.wait(timeout=timeout_s) returns: the child exited within the grace period
TermWaitExited ==
    /\ pc \in TermPcs
    /\ tpc = "wait"
    /\ PollExited(TermChild)
    /\ termOutcome' = [termOutcome EXCEPT ![TermChild] = "graceful"]
    /\ AfterTerminate
    /\ UNCHANGED <<cfgVars, ports, portVars, procVars, waitVars, monVars, termCalls,
                   sigterms, kills, stAtCall, intrVars>>

\* except subprocess.TimeoutExpired: try: proc.kill() except Exception: return
TermWaitTimeout ==
    /\ pc \in TermPcs
    /\ tpc = "wait"
    /\ ~PollExited(TermChild)
    /\ LET c == TermChild IN
        \/ /\ KillChild(c)
           /\ termOutcome' = [termOutcome EXCEPT ![c] = "killed"]
        \/ /\ termOutcome' = [termOutcome EXCEPT ![c] = "killraise"]
           /\ UNCHANGED <<kills, st, code, ports, webListening>>
    /\ AfterTerminate
    /\ UNCHANGED <<cfgVars, portVars, childPort, mcp_proc, mcpSpawnFailed, waitVars,
                   monVars, termCalls, sigterms, stAtCall, intrVars>>

\* ------------------------------------------------- the children and the user
\* The run that is modelled ends when main() leaves: what the children do
\* afterwards is not part of it.
InWait ==
    pc \in {"WaitProbe", "WaitSleep"}

\* the web server starts listening on the port it was given
WebListen ==
    /\ pc # "Done"
    /\ st["web"] = "running"
    /\ ~webListening
    /\ ports[port] = "free"
    /\ ports' = [ports EXCEPT ![port] = "listening"]
    /\ webListening' = TRUE
    /\ reachSeen' = (reachSeen \/ (InWait /\ now < deadline))
    /\ UNCHANGED <<cfgVars, portVars, pc, tpc, st, code, childPort, mcp_proc,
                   mcpSpawnFailed, now, deadline, waitPort, ready, openAtProbe, probeLate, monVars,
                   termVars, intrVars, endVars>>

\* a child exits on its own with some exit code
ChildExit(c, x) ==
    /\ pc # "Done"
    /\ st[c] = "running"
    /\ st' = [st EXCEPT ![c] = "exited"]
    /\ code' = [code EXCEPT ![c] = x]
    /\ ports' = PortsAfterGone(c)
    /\ webListening' = (webListening /\ c # "web")
    /\ UNCHANGED <<cfgVars, portVars, pc, tpc, childPort, mcp_proc, mcpSpawnFailed,
                   waitVars, monVars, termVars, intrVars, endVars>>

\* a child that was sent the graceful request exits because of it
ChildHonour(c) ==
    /\ sigterms[c] > 0
    /\ ChildExit(c, SigTermCode)

\* SIGINT: Python raises KeyboardInterrupt at the supervisor's current position.
\* Only the try block of the monitoring loop catches it (139-140) and then runs
\* the finally block; anywhere else it leaves main().  At most two can land in
\* one run: one in the loop and one in the finally block.
Interrupt ==
    /\ pc # "Done"
    /\ intrAt' = intrAt \cup {pc}
    /\ IF pc = "Monitor"
       THEN /\ pc' = "Fin_web"
            /\ tpc' = "entry"
            /\ UNCHANGED endVars
       ELSE Raise("KeyboardInterrupt")
    /\ UNCHANGED <<cfgVars, ports, portVars, procVars, waitVars, monVars, termVars>>

Next ==
    \/ Configure
    \/ PortCheck
    \/ SpawnWeb
    \/ SpawnMcp
    \/ WaitProbe
    \/ WaitSleep
    \/ OpenBrowser
    \/ Monitor
    \/ TermEntry
    \/ TermWaitExited
    \/ TermWaitTimeout
    \/ WebListen
    \/ \E c \in Children, x \in ExitCodes : ChildExit(c, x)
    \/ \E c \in Children : ChildHonour(c)
    \/ Interrupt

Spec == Init /\ [][Next]_vars

\* The supervisor is one thread that always runs: each of its own steps
\* happens once it stays possible (a sleep ends, a wait with a timeout ends).
\* Nothing is assumed of the children, the listener or the user.
SupervisorFairness ==
    /\ WF_vars(Configure)
    /\ WF_vars(PortCheck)
    /\ WF_vars(SpawnWeb)
    /\ WF_vars(SpawnMcp)
    /\ WF_vars(WaitProbe)
    /\ WF_vars(WaitSleep)
    /\ WF_vars(OpenBrowser)
    /\ WF_vars(Monitor)
    /\ WF_vars(TermEntry)
    /\ WF_vars(TermWaitExited)
    /\ WF_vars(TermWaitTimeout)

\* The runs checked for progress: PORT only names the requested port, whose
\* state (free, bound, listening) still takes every value; it is left unset
\* to keep the graph small.
LiveInit ==
    /\ Init
    /\ osEnvPort = None
    /\ dotenvPort = None

FairSpec == LiveInit /\ [][Next]_vars /\ SupervisorFairness

\* ================================================================ claims
Gone(c) ==
    st[c] \in {"exited", "killed"}

TermReturned(c) ==
    termOutcome[c] \in {"noop", "graceful", "killed", "termraise", "killraise"}

FinallyPcs == {"Fin_web", "Fin_mcp"}

\* C1 (as claimed): whenever main() has left after the primary was spawned,
\* terminate_process has been called exactly once on the primary and exactly
\* once on the secondary handle it still holds.
C1_CleanupOnEveryExit ==
    (pc = "Done" /\ st["web"] # "none") =>
        /\ termCalls["web"] = 1
        /\ mcp_proc => termCalls["mcp"] = 1

\* C2: once a monitoring iteration has read the primary's exit code c (no
\* interruption was caught before that), the value main() returns is c; the
\* finally block, secondary included, does not replace it, and main() does
\* return unless a KeyboardInterrupt lands inside the finally block itself.
C2_PrimaryExitCodeReturned ==
    web_code # None =>
        /\ ready = "true"
        /\ "Monitor" \notin intrAt
        /\ web_code = code["web"]
        /\ pc = "Done" =>
            /\ outcome = "returned" => result = web_code
            /\ intrAt \cap FinallyPcs = {} => outcome = "returned"

C2_Witness ==
    /\ pc = "Done"
    /\ outcome = "returned"
    /\ web_code = MaxExitCode
    /\ result = MaxExitCode
    /\ stAtCall["mcp"] = "running"
    /\ termOutcome["mcp"] \in {"graceful", "killed"}

\* C3: when wait_for_port returned False the browser is never opened and the
\* monitoring loop is never entered, and the run (if no SIGINT cuts it short)
\* returns 1 after one terminate_process call on the primary and one on the
\* secondary if it was started.
C3_NotReadyShutsDown ==
    ready = "false" =>
        /\ opened = "no"
        /\ ~monitored
        /\ pc \in {"NR_web", "NR_mcp", "Done"}
        /\ pc = "Done" =>
            /\ intrAt = {} => outcome = "returned"
            /\ outcome = "returned" =>
                /\ result = 1
                /\ termCalls["web"] = 1
                /\ st["mcp"] # "none" => termCalls["mcp"] = 1

C3_Witness ==
    /\ pc = "Done"
    /\ ready = "false"
    /\ result = 1
    /\ termCalls["web"] = 1
    /\ termCalls["mcp"] = 1
    /\ Gone("web")
    /\ Gone("mcp")

\* C4: a KeyboardInterrupt raised in the monitoring loop (the primary not yet
\* seen exited) takes main() out of the loop for good; terminate_process is
\* called on the primary and on the secondary handle still held, and main()
\* returns 0 (provided no second SIGINT lands during that shutdown).
C4_InterruptInMonitoring ==
    "Monitor" \in intrAt =>
        /\ web_code = None
        /\ pc \in FinallyPcs \cup {"Done"}
        /\ pc = "Done" =>
            /\ intrAt = {"Monitor"} => outcome = "returned"
            /\ outcome = "returned" =>
                /\ result = 0
                /\ termCalls["web"] = 1
                /\ mcp_proc => termCalls["mcp"] = 1

C4_Witness ==
    /\ pc = "Done"
    /\ intrAt = {"Monitor"}
    /\ result = 0
    /\ stAtCall["web"] = "running"
    /\ sigterms["web"] = 1
    /\ mcp_proc
    /\ termCalls["mcp"] = 1

\* C5 (as claimed): when Popen of the secondary has raised, main() does not end
\* before the readiness wait has given its answer (unless a SIGINT ends it).
C5_SecondarySpawnFailureTolerated ==
    mcpSpawnFailed => ~(pc = "Done" /\ ready = "none" /\ intrAt = {})

\* C6 (as claimed): after terminate_process has returned on a child that was
\* running when it was called, the child is gone, whatever the child does.
C6_TerminateAlwaysGone ==
    \A c \in Children :
        (TermReturned(c) /\ stAtCall[c] = "running") => Gone(c)

\* C6 (amended): after terminate_process has returned on a child that was
\* running when it was called, the child is gone if it exited during the
\* grace period or was killed after it; if proc.terminate() raised, nothing
\* more was sent (no wait, no kill), and if proc.kill() raised the child was
\* sent the graceful request only: in both cases it may still be running.
C6_TerminateGoneUnlessSignalFails ==
    \A c \in Children :
        (TermReturned(c) /\ stAtCall[c] = "running") =>
            \/ termOutcome[c] = "graceful" /\ Gone(c) /\ sigterms[c] = 1 /\ kills[c] = 0
            \/ termOutcome[c] = "killed" /\ Gone(c) /\ sigterms[c] = 1 /\ kills[c] = 1
            \/ termOutcome[c] = "termraise" /\ sigterms[c] = 0 /\ kills[c] = 0
            \/ termOutcome[c] = "killraise" /\ sigterms[c] = 1 /\ kills[c] = 0

C6_Witness ==
    /\ stAtCall["web"] = "running"
    /\ termOutcome["web"] = "killed"
    /\ code["web"] = SigKillCode
    /\ stAtCall["mcp"] = "running"
    /\ termOutcome["mcp"] = "graceful"
    /\ code["mcp"] = SigTermCode

\* C7: a terminate_process call on a child that has already exited sends no
\* graceful request and no kill, leaves the child's state and exit code as
\* they were, and returns without raising.
C7_TerminateIdempotent ==
    [][(/\ pc \in TermPcs
        /\ tpc = "entry"
        /\ st[TermChild] \in {"exited", "killed"}
        /\ termCalls' # termCalls)
       => (/\ st' = st
           /\ code' = code
           /\ sigterms' = sigterms
           /\ kills' = kills
           /\ tpc' # "wait"
           /\ termOutcome'[TermChild] = "noop"
           /\ outcome' # "raised")]_vars

C7_Witness ==
    /\ stAtCall["web"] = "exited"
    /\ termOutcome["web"] = "noop"
    /\ code["web"] \in ExitCodes
    /\ sigterms["web"] = 0
    /\ stAtCall["mcp"] = "exited"
    /\ termOutcome["mcp"] = "noop"

\* C8 (as claimed): for a timeout > 0, wait_for_port returns True exactly
\* when a listener was reachable on the port at some time before the deadline.
C8_ReadyIffReachableBeforeDeadline ==
    (ready # "none" /\ args.timeout > 0) => ((ready = "true") <=> reachSeen)

\* C8 (amended): wait_for_port returns True exactly when a listener accepts
\* at the instant of one of its connection attempts, each of which begins
\* before the deadline; it returns False only once the deadline has passed
\* with every attempt refused, even when a listener became reachable before
\* the deadline between two attempts or during the last sleep.
C8_ReadyIffProbeSucceeds ==
    /\ ~probeLate
    /\ ready # "none" =>
        /\ (ready = "true") <=> openAtProbe
        /\ ready = "true" => reachSeen
        /\ ready = "false" => now >= deadline

C8_Witness ==
    /\ ready = "false"
    /\ args.timeout > 0
    /\ reachSeen
    /\ ~openAtProbe

\* C9: when the requested port was not accepting connections at the port
\* check, find_free_port is not called, the readiness wait polls the requested
\* port, and the children's environment is left as merged: its PORT is the
\* requested port, or is absent when the requested port is the default.
C9_FreePortKept ==
    openAtCheck = "closed" =>
        /\ ~findCalled
        /\ port = requested_port
        /\ waitPort \in {None, requested_port}
        /\ \A c \in Children :
              st[c] # "none" =>
                  /\ childPort[c] \in {None, requested_port}
                  /\ childPort[c] = None => requested_port = DefaultPort

C9_Witness ==
    /\ openAtCheck = "closed"
    /\ ports[requested_port] = "bound"
    /\ st["web"] = "running"
    /\ st["mcp"] = "running"
    /\ childPort["web"] = requested_port
    /\ waitPort = requested_port

\* C10: when a listener held the requested port at the port check (and the
\* OS had a port to give), the effective port is the one find_free_port
\* returned, it is not the requested port, it was free when it was selected,
\* and it is the port the children get and the readiness wait polls.
C10_OccupiedPortReplaced ==
    (openAtCheck = "open" /\ exc # "OSError(bind)") =>
        /\ findCalled
        /\ freeAtSelect
        /\ port # requested_port
        /\ waitPort \in {None, port}
        /\ \A c \in Children : st[c] # "none" => childPort[c] = port

C10_Witness ==
    /\ openAtCheck = "open"
    /\ port # requested_port
    /\ st["web"] = "running"
    /\ childPort["web"] = port
    /\ waitPort = port

WaitPcs == {"WaitProbe", "WaitSleep"}

\* the value main() returns after the monitoring loop: the exit code the loop
\* read from the primary, else 0
LoopResult ==
    IF web_code # None THEN web_code ELSE 0

\* the secondary's handle was dropped by the monitoring loop
Dropped ==
    st["mcp"] # "none" /\ ~mcp_proc

\* C11 (as claimed): the environment the primary is spawned with has PORT set
\* to the effective port.
C11_PortInPrimaryEnv ==
    st["web"] # "none" => childPort["web"] = port

\* C12 (as claimed): when os.environ defines PORT, that value is the requested
\* port, whatever the .env file says.
C12_ProcessEnvWins ==
    (pc # "Configuring" /\ osEnvPort # None) => requested_port = osEnvPort

\* C13: the supervisor never gets stuck.  Under the supervisor's fairness,
\* from every position outside the monitoring loop main() reaches the loop or
\* Done (so the readiness wait ends and every terminate_process call
\* returns), and once the loop has been entered, a primary that has exited
\* or an interruption caught by the loop leads to Done.
C13_NoDeadlock ==
    /\ (pc # "Monitor") ~> (pc \in {"Monitor", "Done"})
    /\ (monitored /\ (Gone("web") \/ "Monitor" \in intrAt)) ~> (pc = "Done")

C13_Witness ==
    /\ pc = "Done"
    /\ monitored
    /\ outcome = "returned"
    /\ result = 0
    /\ intrAt = {"Monitor"}
    /\ termOutcome["web"] = "killed"
    /\ termOutcome["mcp"] = "graceful"

\* C14 (as claimed): a SIGINT that arrives during the readiness wait does not
\* end main() before wait_for_port has given its answer.
C14_InterruptDeferredDuringWait ==
    (pc = "Done" /\ intrAt \cap WaitPcs # {}) => ready # "none"

\* C15: once the monitoring loop has dropped the exited secondary, no
\* terminate_process call is made on it, the run ends only for a primary exit
\* or an interruption, and what main() returns is the primary's exit code, or
\* 0 after an interruption.
C15_SecondaryExitIgnored ==
    Dropped =>
        /\ monitored
        /\ Gone("mcp")
        /\ termCalls["mcp"] = 0
        /\ pc \in {"Monitor", "Fin_web", "Done"}
        /\ pc = "Done" =>
            /\ web_code # None \/ intrAt # {}
            /\ outcome = "returned" => result = LoopResult
            /\ intrAt \cap FinallyPcs = {} => outcome = "returned"

C15_Witness ==
    /\ Dropped
    /\ pc = "Done"
    /\ code["mcp"] = MaxExitCode
    /\ web_code = 0
    /\ result = 0
    /\ intrAt = {}
    /\ termCalls["web"] = 1

\* C16 (as claimed): from the spawn of the primary on, the port in the
\* children's environment, the port the readiness wait polls and the port in
\* the browser URL are all the effective port.
C16_OnePortEverywhere ==
    st["web"] # "none" =>
        /\ \A c \in Children : st[c] # "none" => childPort[c] = port
        /\ waitPort \in {None, port}
        /\ url.port = port

\* C17: no error of the signalling steps leaves terminate_process: after a
\* terminate_process call has begun, main() ends by returning, unless a
\* SIGINT lands during the shutdown; a failed proc.terminate() or proc.kill()
\* is never the exception main() ends with.
C17_TerminateNeverRaises ==
    /\ exc \in {"none", "KeyboardInterrupt", "OSError(spawn)", "OSError(bind)"}
    /\ (pc = "Done" /\ termCalls["web"] > 0 /\ outcome = "raised") =>
           /\ exc = "KeyboardInterrupt"
           /\ intrAt \cap TermPcs # {}
    /\ \A c \in Children :
           (termOutcome[c] \in {"termraise", "killraise"} /\ pc = "Done"
                /\ intrAt \cap TermPcs = {}) => outcome = "returned"

C17_Witness ==
    /\ pc = "Done"
    /\ outcome = "returned"
    /\ termOutcome["web"] = "termraise"
    /\ termOutcome["mcp"] = "killraise"

\* C18: the browser is opened only after wait_for_port returned True and only
\* without --no-open; opened, failed or skipped, main() goes on to the
\* monitoring loop (unless a SIGINT ends it first), and what it returns after
\* the loop depends on the primary's exit code alone.
C18_BrowserNeverDecides ==
    /\ (pc = "Open" \/ opened # "no") => (ready = "true" /\ ~args.no_open)
    /\ (ready = "true" /\ pc = "Done" /\ intrAt = {}) => monitored
    /\ (ready = "true" /\ pc # "Open" /\ "Open" \notin intrAt) => monitored
    /\ (pc = "Done" /\ monitored /\ outcome = "returned") => result = LoopResult

C18_Witness ==
    /\ pc = "Done"
    /\ opened = "error"
    /\ monitored
    /\ outcome = "returned"
    /\ web_code = MaxExitCode
    /\ result = MaxExitCode

\* C19 (as claimed): the URL handed to the browser names the host given with
\* --host and the effective port.
C19_UrlUsesHost ==
    url.port # None => (url.host = args.host /\ url.port = port)

\* C20: the primary is not polled during the readiness wait: while main() is
\* in wait_for_port an exited primary changes nothing, and when the primary
\* exited with code c and no connection attempt succeeded, wait_for_port runs
\* to the deadline and main() returns 1, not c.
C20_PrimaryExitDuringWaitIgnored ==
    /\ (InWait /\ Gone("web")) => (ready = "none" /\ web_code = None /\ retPending = None)
    /\ (ready = "false" /\ stAtCall["web"] = "exited") =>
           /\ now >= deadline
           /\ web_code = None
           /\ termOutcome["web"] = "noop"
           /\ (pc = "Done" /\ outcome = "returned") => result = 1

C20_Witness ==
    /\ pc = "Done"
    /\ ready = "false"
    /\ args.timeout > 0
    /\ stAtCall["web"] = "exited"
    /\ code["web"] = 0
    /\ result = 1
====
